---- MODULE Spec2Model ----
(***************************************************************************)
(* camtconv: CAMT statement archives -> classified transactions -> CSV.    *)
(* Model of src/camtconv.py.  Python str values are TLA+ strings; TLC      *)
(* evaluates Len, \o and SubSeq on them.                                   *)
(***************************************************************************)
EXTENDS Integers, Sequences, FiniteSets, TLC

VARIABLES
    args,       \* from_any_files(args): the input paths, in command-line order
    fs,         \* the archives read so far: zip path -> (member name -> document)
    pc,         \* position of the run inside to_csv / the generator chain
    argi,       \* index in args of the input the for loop of from_any_files is at
    tempdirs,   \* directories made by tempfile.mkdtemp that exist on disk
    tempfiles,  \* extracted member files that exist on disk, as <<dir, name>>
    filenames,  \* from_camt_zipfile: the sorted names not yet unlinked
    entries,    \* from_camt_doc: the statement entries not yet iterated
    out,        \* the rows written through csv.writer, in order
    err,        \* the exception that ended the run, or NoError
    camt,       \* unit runs: the statement entry given to from_camt_transaction
    txn,        \* unit runs: the Transaction object
    row,        \* unit runs: the data row to_csv builds from txn
    upc         \* unit runs: position

vars == <<args, fs, pc, argi, tempdirs, tempfiles, filenames, entries, out, err,
          camt, txn, row, upc>>

pipevars == <<args, fs, pc, argi, tempdirs, tempfiles, filenames, entries, out, err>>
unitvars == <<camt, txn, row, upc>>

-----------------------------------------------------------------------------
(* Characters *)

\* The characters the model's strings are made of, in ascending code point order.
CodeOrder == "\n -.0123456789ABCDEFGHIJKLMNOPQRSTUVWXYZ_abcdefghijklmnopqrstuvwxyz"

UpperCase == "ABCDEFGHIJKLMNOPQRSTUVWXYZ"
LowerCase == "abcdefghijklmnopqrstuvwxyz"
Digits == "0123456789"

CharAt(s, i) == SubSeq(s, i, i)

CharsOf(s) == {CharAt(s, i) : i \in 1..Len(s)}

AllChars == CharsOf(CodeOrder)
UpperChars == CharsOf(UpperCase)

\* ord(c), up to an order-preserving renumbering
OrdTable == [c \in AllChars |-> CHOOSE i \in 1..Len(CodeOrder) : CharAt(CodeOrder, i) = c]

Ord(c) == OrdTable[c]

\* \w of the re module for str patterns: letters, digits and the underscore
WordChars == UpperChars \cup CharsOf(LowerCase) \cup CharsOf(Digits) \cup {"_"}

\* str.lower() of one character
LowerTable ==
    [c \in AllChars |->
        IF c \in UpperChars
        THEN CharAt(LowerCase, CHOOSE i \in 1..Len(UpperCase) : CharAt(UpperCase, i) = c)
        ELSE c]

LowerChar(c) == LowerTable[c]

RECURSIVE LowerStr(_)
LowerStr(s) == IF s = "" THEN "" ELSE LowerChar(Head(s)) \o LowerStr(Tail(s))

-----------------------------------------------------------------------------
(* Regular expressions of account_patterns *)

\* Is position p (between character p and character p+1 of s) a \b position?
IsWordAt(s, i) == i >= 1 /\ i <= Len(s) /\ CharAt(s, i) \in WordChars

WordBoundary(s, p) == IsWordAt(s, p) # IsWordAt(s, p + 1)

\* Does the literal lit stand in s at index i?
LiteralAt(s, i, lit) ==
    /\ i >= 1
    /\ i + Len(lit) - 1 <= Len(s)
    /\ SubSeq(s, i, i + Len(lit) - 1) = lit

\* A compiled pattern [\b](alt1|alt2|...)\b : lead says whether the leading \b is
\* there, icase whether re.I is given (letters then match in either case).
\* pattern.search(subject): some alternative stands somewhere in the subject.
search(pattern, subject) ==
    LET text == IF pattern.icase THEN LowerStr(subject) ELSE subject
    IN  \E lit \in pattern.alts : \E i \in 1..(Len(subject) - Len(lit) + 1) :
            /\ pattern.lead => WordBoundary(subject, i - 1)
            /\ WordBoundary(subject, i + Len(lit) - 1)
            /\ LiteralAt(text, i, IF pattern.icase THEN LowerStr(lit) ELSE lit)

\* A mutant of account_patterns: the acronym rule is written with a leading \b.
account_patterns_wholeword ==
    << [alts |-> {"PWE", "Probenwochenende", "Proben-WE", "Ochsenhausen", "vegetarisch"},
        lead |-> TRUE, icase |-> TRUE, account |-> "Probenwochenende"],
       [alts |-> {"PWE"},
        lead |-> TRUE, icase |-> FALSE, account |-> "Probenwochenende"],
       [alts |-> {"Chorreise", "Reisebeitrag", "Chorreisebeitrag"},
        lead |-> TRUE, icase |-> TRUE, account |-> "Chorreise"] >>

account_patterns ==
    << [alts |-> {"PWE", "Probenwochenende", "Proben-WE", "Ochsenhausen", "vegetarisch"},
        lead |-> TRUE, icase |-> TRUE, account |-> "Probenwochenende"],
       [alts |-> {"PWE"},
        lead |-> FALSE, icase |-> FALSE, account |-> "Probenwochenende"],
       [alts |-> {"Chorreise", "Reisebeitrag", "Chorreisebeitrag"},
        lead |-> TRUE, icase |-> TRUE, account |-> "Chorreise"] >>

\* The label returned when no pattern is found (the source's a-umlaut written ae).
default_account == "Tagesgeschaeft"

\* A mutant of the loop of _guess_account: the last matching pattern wins.
RECURSIVE guess_last(_, _)
guess_last(subject, k) ==
    IF k < 1 THEN default_account
    ELSE IF search(account_patterns[k], subject) THEN account_patterns[k].account
    ELSE guess_last(subject, k - 1)

\* for pattern, account in account_patterns, from entry k on
RECURSIVE guess_from(_, _)
guess_from(subject, k) ==
    IF k > Len(account_patterns) THEN default_account
    ELSE IF search(account_patterns[k], subject) THEN account_patterns[k].account
    ELSE guess_from(subject, k + 1)

guess_account_lastwins(subject) == guess_last(subject, Len(account_patterns))

\* Transaction._guess_account
guess_account(subject) == guess_from(subject, 1)

-----------------------------------------------------------------------------
(* Transaction *)

NoAccount == "<unset>"

\* '\n'.join(parts)
RECURSIVE join(_, _)
join(sep, parts) ==
    IF Len(parts) = 0 THEN ""
    ELSE IF Len(parts) = 1 THEN parts[1]
    ELSE parts[1] \o sep \o join(sep, Tail(parts))

\* A mutant of the subject assembly: every purpose line is joined in.
subject_all_lines(c) ==
    join("\n", (IF c.name # "" THEN <<c.name>> ELSE <<>>) \o c.purpose)

\* from_camt_transaction, lines 32-37: name (if truthy), then purpose[0] (if any)
subject_of(c) ==
    join("\n", (IF c.name # "" THEN <<c.name>> ELSE <<>>)
               \o (IF Len(c.purpose) > 0 THEN <<c.purpose[1]>> ELSE <<>>))

\* Transaction.__init__
Transaction(date, subject, amount) ==
    [date |-> date, subject |-> subject, amount |-> amount,
     account |-> guess_account(subject)]

\* A mutant of the currency assertion: any three-letter code passes.
currency_any(c) == Len(c.amount.currency) = Len("EUR")

\* assert camt.amount.currency == 'EUR'
currency_ok(c) == c.amount.currency = "EUR"

\* Transaction.from_camt_transaction for an entry that passes the assertion
from_camt_transaction(c) == Transaction(c.date, subject_of(c), c.amount.value)

-----------------------------------------------------------------------------
(* to_csv: the row of one Transaction *)

\* locale.localeconv() under LC_NUMERIC de_DE.utf8
decimal_point == ","
thousands_sep == "."
grouping == 3

RECURSIVE NatStr(_)
NatStr(n) ==
    IF n < 10 THEN CharAt(Digits, n + 1)
    ELSE NatStr(n \div 10) \o CharAt(Digits, (n % 10) + 1)

RECURSIVE Zeros(_)
Zeros(n) == IF n <= 0 THEN "" ELSE "0" \o Zeros(n - 1)

\* zero-padded decimal of width w, as %d, %m and %Y give
Pad(n, w) == Zeros(w - Len(NatStr(n))) \o NatStr(n)

\* t.date.strftime("%d.%m.%Y")
strftime(date) == Pad(date.d, 2) \o "." \o Pad(date.m, 2) \o "." \o Pad(date.y, 4)

\* A mutant of the locale's grouping: no separator is inserted.
insert_no_sep(intpart) == intpart

\* The locale's grouping of the integer digits: a separator before every full
\* group of three digits, counted from the right.
RECURSIVE insert_thousands_sep(_)
insert_thousands_sep(intpart) ==
    IF Len(intpart) <= grouping THEN intpart
    ELSE insert_thousands_sep(SubSeq(intpart, 1, Len(intpart) - grouping))
         \o thousands_sep
         \o SubSeq(intpart, Len(intpart) - grouping + 1, Len(intpart))

\* f"{amount:n}" of a decimal.Decimal [neg, coeff, exp] = (-1)^neg * coeff * 10^exp:
\* format type n is g with the locale's separators, no precision given.
format_n(a) ==
    LET digits     == NatStr(a.coeff)
        leftdigits == a.exp + Len(digits)
        fixed      == a.exp <= 0 /\ leftdigits > -6
        dotplace   == IF fixed THEN leftdigits ELSE 1
        intpart    == IF dotplace <= 0 THEN "0"
                      ELSE IF dotplace >= Len(digits)
                           THEN digits \o Zeros(dotplace - Len(digits))
                           ELSE SubSeq(digits, 1, dotplace)
        fracpart   == IF dotplace <= 0 THEN Zeros(0 - dotplace) \o digits
                      ELSE IF dotplace >= Len(digits) THEN ""
                           ELSE SubSeq(digits, dotplace + 1, Len(digits))
        e          == leftdigits - dotplace
    IN  (IF a.neg THEN "-" ELSE "")
        \o insert_thousands_sep(intpart)
        \o (IF fracpart # "" THEN decimal_point \o fracpart ELSE "")
        \o (IF e = 0 THEN ""
            ELSE "e" \o (IF e < 0 THEN "-" ELSE "+") \o NatStr(IF e < 0 THEN 0 - e ELSE e))

fieldnames ==
    <<"Datum", "Betreff", "Betrag", "Buchungsnummer", "Semester", "Kategorie", "Unterkonto">>

\* A mutant of the row mapping: the label goes under the Kategorie header.
csv_row_category(t) ==
    <<strftime(t.date), t.subject, format_n(t.amount), "", "", t.account, "">>

\* to_csv, lines 90-92: the list given to out.writerow
csv_row(t) ==
    <<strftime(t.date), t.subject, format_n(t.amount), "", "", "", t.account>>

-----------------------------------------------------------------------------
(* Unit runs: one Transaction built and written, apart from any input file *)

NoTxn == [date |-> [d |-> 0, m |-> 0, y |-> 0], subject |-> "",
          amount |-> [neg |-> FALSE, coeff |-> 0, exp |-> 0], account |-> NoAccount]
NoRow == <<>>
NoCamt == [name |-> "", purpose |-> <<>>, date |-> NoTxn.date,
           amount |-> [value |-> NoTxn.amount, currency |-> ""]]

\* Bounds of the unit runs
MaxFrags == 3       \* fragments a subject is made of
MaxPurpose == 2     \* purpose lines of an entry
MaxScale == 2       \* fraction digits of an amount

Fragments == {"PWE", "pwe", "X", "7", " ", "_", "-", "Chorreise", "vegetarisch"}

RECURSIVE Concats(_)
Concats(n) ==
    IF n = 0 THEN {""}
    ELSE Concats(n - 1) \cup {s \o f : s \in Concats(n - 1), f \in Fragments}

Subjects == Concats(MaxFrags)

RECURSIVE SeqsUpTo(_, _)
SeqsUpTo(S, n) ==
    IF n = 0 THEN {<<>>}
    ELSE SeqsUpTo(S, n - 1) \cup {Append(q, x) : q \in SeqsUpTo(S, n - 1), x \in S}

Dates == {[d |-> 5, m |-> 1, y |-> 2021], [d |-> 31, m |-> 12, y |-> 2020]}
Coeffs == {0, 1, 5, 99, 1000, 12345, 123456, 1234567}
Decimals == [neg : BOOLEAN, coeff : Coeffs, exp : (0 - MaxScale)..0]
Currencies == {"EUR", "USD", "eur", ""}
Names == {"", "Acme", "PWE"}
PurposeLines == {"", "first", "second Chorreise"}

CamtEntries ==
    [name : Names, purpose : SeqsUpTo(PurposeLines, MaxPurpose), date : Dates,
     amount : [value : Decimals, currency : Currencies]]

PipeIdle ==
    /\ args = <<>> /\ fs = <<>> /\ pc = "idle" /\ argi = 0
    /\ tempdirs = {} /\ tempfiles = {} /\ filenames = <<>> /\ entries = <<>>
    /\ out = <<>> /\ err = "idle"

\* Transaction.__init__ after its three field assignments, for any subject
InitClassify ==
    /\ PipeIdle
    /\ camt = NoCamt
    /\ row = NoRow
    /\ upc = "init"
    /\ txn \in {[NoTxn EXCEPT !.subject = s] : s \in Subjects}

\* self.account = self._guess_account()
GuessAccount ==
    /\ upc = "init"
    /\ txn' = [txn EXCEPT !.account = guess_account(txn.subject)]
    /\ upc' = "constructed"
    /\ UNCHANGED <<camt, row>>
    /\ UNCHANGED pipevars

NextClassify == GuessAccount

SpecClassify == InitClassify /\ [][NextClassify]_vars

\* One statement entry, as the decoder hands it to from_camt_transaction
InitBuild ==
    /\ PipeIdle
    /\ camt \in CamtEntries
    /\ txn = NoTxn
    /\ row = NoRow
    /\ upc = "entry"

\* Transaction.from_camt_transaction(camt)
Build ==
    /\ upc = "entry"
    /\ IF currency_ok(camt)
       THEN /\ txn' = from_camt_transaction(camt)
            /\ upc' = "built"
       ELSE /\ txn' = txn
            /\ upc' = "AssertionError"
    /\ UNCHANGED <<camt, row>>
    /\ UNCHANGED pipevars

\* the body of the for loop of to_csv
WriteRow ==
    /\ upc = "built"
    /\ row' = csv_row(txn)
    /\ upc' = "written"
    /\ UNCHANGED <<camt, txn>>
    /\ UNCHANGED pipevars

NextBuild == Build \/ WriteRow

SpecBuild == InitBuild /\ [][NextBuild]_vars

-----------------------------------------------------------------------------
(* The input files of a run *)

\* Bounds of the pipeline runs
MaxArgs == 2        \* inputs on the command line
MaxEntries == 2     \* statement entries of one document

Paths == {"a.zip", "b.ZIP", "c.Zip"}
MemberNames == {"a.xml", "B.xml"}

EndsWith(s, suffix) ==
    Len(s) >= Len(suffix) /\ SubSeq(s, Len(s) - Len(suffix) + 1, Len(s)) = suffix

\* A mutant of is_zipfile: the suffix is compared without regard to case.
is_zipfile_anycase(arg) == EndsWith(LowerStr(arg), ".zip")

is_zipfile(arg) == EndsWith(arg, ".zip") \/ EndsWith(arg, ".ZIP")

ZipPaths == {p \in Paths : is_zipfile(p)}

\* The shape of a document: undecodable, or n entries of which entry number bad
\* (if not 0) is not in EUR.
DocShapes ==
    {[ok |-> FALSE, n |-> 0, bad |-> 0]}
    \cup {sh \in [ok : {TRUE}, n : 0..MaxEntries, bad : 0..MaxEntries] : sh.bad <= sh.n}

ArchiveShapes == UNION {[S -> DocShapes] : S \in SUBSET MemberNames}

\* Entry k of member m of archive p.  The amount tells the entries apart.
EntryAt(p, m, k, isBad) ==
    [name    |-> IF k % 3 = 1 THEN "Abc" ELSE IF k % 3 = 2 THEN "" ELSE "Bank",
     purpose |-> IF k % 3 = 1 THEN <<"PWE 1", "x">>
                 ELSE IF k % 3 = 2 THEN <<"Chorreise">> ELSE <<>>,
     date    |-> [d |-> k, m |-> 1, y |-> 2021],
     amount  |-> [value |-> [neg |-> (k % 2 = 0),
                             coeff |-> Ord(CharAt(p, 1)) * 10000 + Ord(CharAt(m, 1)) * 100 + k,
                             exp |-> -2],
                  currency |-> IF ~isBad THEN "EUR" ELSE IF k % 2 = 1 THEN "USD" ELSE "eur"]]

DocOf(p, m, sh) ==
    [ok |-> sh.ok, entries |-> [k \in 1..sh.n |-> EntryAt(p, m, k, k = sh.bad)]]

ArchiveOf(p, ash) == [m \in DOMAIN ash |-> DocOf(p, m, ash[m])]

\* zipfile.ZipFile(p): what the archive at p holds; a path read before holds the same
ZipContents(p) ==
    IF p \in DOMAIN fs THEN {fs[p]}
    ELSE {ArchiveOf(p, ash) : ash \in ArchiveShapes}

-----------------------------------------------------------------------------
(* from_camt_zipfile: the listing of the temporary directory *)

\* Python's order of str: by code point, a proper prefix first
RECURSIVE StrLess(_, _)
StrLess(a, b) ==
    IF b = "" THEN FALSE
    ELSE IF a = "" THEN TRUE
    ELSE IF Head(a) = Head(b) THEN StrLess(Tail(a), Tail(b))
    ELSE Ord(Head(a)) < Ord(Head(b))

RECURSIVE insert_sorted(_, _)
insert_sorted(x, q) ==
    IF q = <<>> THEN <<x>>
    ELSE IF StrLess(q[1], x) THEN <<q[1]>> \o insert_sorted(x, Tail(q))
    ELSE <<x>> \o q

RECURSIVE sort_from(_)
sort_from(q) == IF q = <<>> THEN <<>> ELSE insert_sorted(q[1], sort_from(Tail(q)))

\* A mutant of from_camt_zipfile: the listing is used in the order os.listdir gave.
sort_missing(q) == q

\* filenames.sort()
sort(q) == sort_from(q)

\* os.listdir(tempdir): the names, in arbitrary order
listdir(S) == {q \in [1..Cardinality(S) -> S] : \A x \in S : \E i \in DOMAIN q : q[i] = x}

-----------------------------------------------------------------------------
(* A run of main: to_csv(from_any_files(inputs), output) *)

NoError == "none"

Init ==
    /\ args \in SeqsUpTo(Paths, MaxArgs) \ {<<>>}
    /\ fs = <<>>
    /\ pc = "main"
    /\ argi = 1
    /\ tempdirs = {}
    /\ tempfiles = {}
    /\ filenames = <<>>
    /\ entries = <<>>
    /\ out = <<>>
    /\ err = NoError
    /\ camt = NoCamt
    /\ txn = NoTxn
    /\ row = NoRow
    /\ upc = "idle"

\* to_csv: open(csvname, 'w') creates or truncates the output file
OpenCsv ==
    /\ pc = "main"
    /\ out' = <<>>
    /\ pc' = "opened"
    /\ UNCHANGED <<args, fs, argi, tempdirs, tempfiles, filenames, entries, err>>
    /\ UNCHANGED unitvars

\* A mutant of to_csv: no header row is written.
WriteHeaderMissing ==
    /\ pc = "opened"
    /\ pc' = "args"
    /\ UNCHANGED <<out, args, fs, argi, tempdirs, tempfiles, filenames, entries, err>>
    /\ UNCHANGED unitvars

\* to_csv: out.writerow(fieldnames)
WriteHeader ==
    /\ pc = "opened"
    /\ out' = Append(out, fieldnames)
    /\ pc' = "args"
    /\ UNCHANGED <<args, fs, argi, tempdirs, tempfiles, filenames, entries, err>>
    /\ UNCHANGED unitvars

\* from_any_files: args is exhausted, the generator ends, to_csv closes the file
Exhausted ==
    /\ pc = "args"
    /\ argi > Len(args)
    /\ pc' = "done"
    /\ UNCHANGED <<args, fs, argi, tempdirs, tempfiles, filenames, entries, out, err>>
    /\ UNCHANGED unitvars

\* from_any_files: raise ValueError("Don't know how to handle " + arg)
Unsupported ==
    /\ pc = "args"
    /\ argi <= Len(args)
    /\ ~is_zipfile(args[argi])
    /\ pc' = "failed"
    /\ err' = "ValueError"
    /\ UNCHANGED <<args, fs, argi, tempdirs, tempfiles, filenames, entries, out>>
    /\ UNCHANGED unitvars

\* from_camt_zipfile up to its for loop: ZipFile, mkdtemp, extractall, listdir, sort.
\* What the archive holds is an input, drawn when the archive is first read.
\* The directory is named by the index of its input: mkdtemp gives a fresh name.
OpenZip ==
    /\ pc = "args"
    /\ argi <= Len(args)
    /\ is_zipfile(args[argi])
    /\ \E archive \in ZipContents(args[argi]) :
          /\ fs' = [p \in DOMAIN fs \cup {args[argi]} |->
                       IF p = args[argi] THEN archive ELSE fs[p]]
          /\ tempfiles' = tempfiles \cup {<<argi, m>> : m \in DOMAIN archive}
          /\ \E listing \in listdir(DOMAIN archive) : filenames' = sort(listing)
    /\ tempdirs' = tempdirs \cup {argi}
    /\ pc' = "members"
    /\ UNCHANGED <<args, argi, entries, out, err>>
    /\ UNCHANGED unitvars

\* from_camt_zipfile: the for loop is over, os.rmdir(tempdir), next input
RemoveTempdir ==
    /\ pc = "members"
    /\ filenames = <<>>
    /\ tempdirs' = tempdirs \ {argi}
    /\ argi' = argi + 1
    /\ pc' = "args"
    /\ UNCHANGED <<args, fs, tempfiles, filenames, entries, out, err>>
    /\ UNCHANGED unitvars

\* from_camt_xmlfile, from_camt_doc: the file is read and CAMTDocument(xml) decodes it
ReadMember ==
    /\ pc = "members"
    /\ filenames # <<>>
    /\ fs[args[argi]][filenames[1]].ok
    /\ entries' = fs[args[argi]][filenames[1]].entries
    /\ pc' = "entries"
    /\ UNCHANGED <<args, fs, argi, tempdirs, tempfiles, filenames, out, err>>
    /\ UNCHANGED unitvars

\* from_camt_doc: CAMTDocument(xml) raises
DecodeFail ==
    /\ pc = "members"
    /\ filenames # <<>>
    /\ ~fs[args[argi]][filenames[1]].ok
    /\ pc' = "failed"
    /\ err' = "DecodeError"
    /\ UNCHANGED <<args, fs, argi, tempdirs, tempfiles, filenames, entries, out>>
    /\ UNCHANGED unitvars

\* from_camt_doc yields Transaction.from_camt_transaction(t); to_csv writes its row
EmitRow ==
    /\ pc = "entries"
    /\ entries # <<>>
    /\ currency_ok(entries[1])
    /\ out' = Append(out, csv_row(from_camt_transaction(entries[1])))
    /\ entries' = Tail(entries)
    /\ UNCHANGED <<args, fs, pc, argi, tempdirs, tempfiles, filenames, err>>
    /\ UNCHANGED unitvars

\* from_camt_transaction: the assertion on the currency fails
CurrencyFail ==
    /\ pc = "entries"
    /\ entries # <<>>
    /\ ~currency_ok(entries[1])
    /\ pc' = "failed"
    /\ err' = "AssertionError"
    /\ UNCHANGED <<args, fs, argi, tempdirs, tempfiles, filenames, entries, out>>
    /\ UNCHANGED unitvars

\* from_camt_zipfile: the document is exhausted, os.unlink(xmlfile), next member
UnlinkMember ==
    /\ pc = "entries"
    /\ entries = <<>>
    /\ tempfiles' = tempfiles \ {<<argi, filenames[1]>>}
    /\ filenames' = Tail(filenames)
    /\ pc' = "members"
    /\ UNCHANGED <<args, fs, argi, tempdirs, entries, out, err>>
    /\ UNCHANGED unitvars

Next ==
    \/ OpenCsv
    \/ WriteHeader
    \/ Exhausted
    \/ Unsupported
    \/ OpenZip
    \/ RemoveTempdir
    \/ ReadMember
    \/ DecodeFail
    \/ EmitRow
    \/ CurrencyFail
    \/ UnlinkMember

Spec == Init /\ [][Next]_vars

-----------------------------------------------------------------------------
(* What a run is to produce, read off its inputs *)

\* The member names of an archive in ascending order
Ascending(S) ==
    CHOOSE q \in listdir(S) : \A i, j \in DOMAIN q : i < j => StrLess(q[i], q[j])

RECURSIVE Flatten(_)
Flatten(qq) == IF qq = <<>> THEN <<>> ELSE qq[1] \o Flatten(Tail(qq))

DocItems(doc) ==
    IF doc.ok THEN [k \in DOMAIN doc.entries |-> [kind |-> "entry", e |-> doc.entries[k]]]
    ELSE <<[kind |-> "undecodable", e |-> NoCamt]>>

ArchiveItems(archive) ==
    LET names == Ascending(DOMAIN archive)
    IN  Flatten([i \in DOMAIN names |-> DocItems(archive[names[i]])])

\* An input not read yet stands for itself: nothing is known past it.
ArgItems(i) ==
    IF ~is_zipfile(args[i]) THEN <<[kind |-> "unsupported", e |-> NoCamt]>>
    ELSE IF args[i] \in DOMAIN fs THEN ArchiveItems(fs[args[i]])
    ELSE <<[kind |-> "unread", e |-> NoCamt]>>

\* Everything the inputs hold, in the order of the argument list, then of the
\* member names, then of the entries of each document.
Stream == Flatten([i \in DOMAIN args |-> ArgItems(i)])

IsEur(item) == item.kind = "entry" /\ item.e.amount.currency = "EUR"
IsForeign(item) == item.kind = "entry" /\ item.e.amount.currency # "EUR"

RECURSIVE EurPrefix(_)
EurPrefix(items) ==
    IF items = <<>> \/ ~IsEur(items[1]) THEN <<>>
    ELSE <<items[1]>> \o EurPrefix(Tail(items))

RowsOf(items) == [i \in DOMAIN items |-> csv_row(from_camt_transaction(items[i].e))]

DataRows == IF out = <<>> THEN <<>> ELSE Tail(out)

IsPrefix(p, q) == Len(p) <= Len(q) /\ p = SubSeq(q, 1, Len(p))

Header ==
    <<"Datum", "Betreff", "Betrag", "Buchungsnummer", "Semester", "Kategorie", "Unterkonto">>

Ended == pc \in {"done", "failed"}

-----------------------------------------------------------------------------
(* C1 *)

\* An archive every document of which decodes and holds EUR entries only, at least one
ValidWithTransactions(archive) ==
    /\ \A m \in DOMAIN archive :
          /\ archive[m].ok
          /\ \A k \in DOMAIN archive[m].entries :
                archive[m].entries[k].amount.currency = "EUR"
    /\ \E m \in DOMAIN archive : archive[m].entries # <<>>

MixedList ==
    /\ Len(args) >= 2
    /\ is_zipfile(args[1])
    /\ ~is_zipfile(args[2])
    /\ args[1] \in DOMAIN fs
    /\ ValidWithTransactions(fs[args[1]])

\* C1: when the first input is a valid container with at least one transaction and
\* the second input is of an unsupported kind, the run does not succeed and the
\* output never holds a data row.
C1_NoRowBeforeUnsupported == MixedList => (pc # "done" /\ Len(out) <= 1)

-----------------------------------------------------------------------------
(* C2 *)

\* C2: a run that ends without error has written, after the header, exactly one row
\* per statement entry of its inputs, in the order of the argument list, then of the
\* sorted member names, then of the entries of each document.
C2_OrderPreserved ==
    pc = "done" =>
        /\ \A i \in DOMAIN Stream : IsEur(Stream[i])
        /\ DataRows = RowsOf(Stream)
        /\ Len(out) = 1 + Len(Stream)

\* Two different archives, the first with two members, five rows in all or more.
C2_Witness ==
    /\ pc = "done"
    /\ Len(args) = 2
    /\ args[1] # args[2]
    /\ Cardinality(DOMAIN fs[args[1]]) = 2
    /\ \A m \in DOMAIN fs[args[1]] : Len(fs[args[1]][m].entries) >= 1
    /\ \E m \in DOMAIN fs[args[2]] : Len(fs[args[2]][m].entries) = 2
    /\ Len(out) >= 5

-----------------------------------------------------------------------------
(* C5 *)

\* C5: an entry is built into a Transaction exactly when its currency is EUR; an
\* entry of another currency ends the run with an error, and no row is written for
\* it or for anything after it in the stream.
C5_CurrencyGuard ==
    LET items == Stream
        eur   == EurPrefix(items)
    IN  /\ IsPrefix(DataRows, RowsOf(eur))
        /\ (pc = "done" => \A i \in DOMAIN items : ~IsForeign(items[i]))
        /\ (pc = "failed" /\ err = "AssertionError") =>
              /\ Len(eur) < Len(items)
              /\ IsForeign(items[Len(eur) + 1])
              /\ DataRows = RowsOf(eur)
        /\ (Len(eur) < Len(items) /\ IsForeign(items[Len(eur) + 1]) /\ Ended) =>
              (pc = "failed" /\ err = "AssertionError")
        /\ (pc = "failed" => ~ENABLED Next)

\* The run has failed on a foreign entry after writing a row, with entries after it.
C5_Witness ==
    /\ pc = "failed"
    /\ err = "AssertionError"
    /\ Len(out) >= 2
    /\ Len(Stream) > Len(EurPrefix(Stream)) + 1
    /\ Stream[Len(Stream)].kind = "entry"

-----------------------------------------------------------------------------
(* C7 *)

\* C7: every data row has the seven fields of the header; its fourth, fifth and
\* sixth fields are empty and its seventh is the label the Transaction was given
\* when it was constructed.
C7_RowMapping ==
    LET items == Stream
    IN  \A i \in 2..Len(out) :
        LET t == from_camt_transaction(items[i - 1].e)
        IN  /\ Len(out[i]) = Len(Header)
            /\ Len(out[i]) = 7
            /\ out[i][2] = t.subject
            /\ out[i][4] = ""
            /\ out[i][5] = ""
            /\ out[i][6] = ""
            /\ out[i][7] = t.account

\* Rows of two different labels have been written.
C7_Witness ==
    /\ \E i \in 2..Len(out) : out[i][7] = "Probenwochenende"
    /\ \E i \in 2..Len(out) : out[i][7] = "Chorreise"

-----------------------------------------------------------------------------
(* C8 *)

\* C8: the first row written is the header row, it is written once and before any
\* data row, and a run whose transaction stream is empty succeeds with the header
\* row as its whole output.
C8_HeaderFirst ==
    /\ pc \in {"main", "opened"} => out = <<>>
    /\ pc \notin {"main", "opened"} => (Len(out) >= 1 /\ out[1] = Header)
    /\ \A i \in 2..Len(out) : out[i] # Header
    /\ (Ended /\ Stream = <<>>) => (pc = "done" /\ out = <<Header>>)

\* A run over an archive that holds a document without entries has ended.
C8_Witness ==
    /\ pc = "done"
    /\ out = <<Header>>
    /\ \E p \in DOMAIN fs : \E m \in DOMAIN fs[p] : fs[p][m].ok

-----------------------------------------------------------------------------
(* C10 *)

\* C10: when a run has ended, by completing or by an error, no extracted member
\* file and no temporary directory of the run is left.
C10_NoTempLeft == Ended => (tempfiles = {} /\ tempdirs = {})

-----------------------------------------------------------------------------
(* C3 *)

Matching(subject) ==
    {k \in DOMAIN account_patterns : search(account_patterns[k], subject)}

\* C3: the label of a constructed Transaction is the label of the earliest entry of
\* account_patterns whose pattern is found in the subject, and the default label
\* when no pattern is found.
C3_FirstMatchWins ==
    upc = "constructed" =>
        LET M == Matching(txn.subject)
        IN  IF M = {} THEN txn.account = "Tagesgeschaeft"
            ELSE \E k \in M : /\ \A j \in M : k <= j
                              /\ txn.account = account_patterns[k].account

\* A subject in which the first and the third rule are both found
C3_Witness ==
    /\ upc = "constructed"
    /\ {1, 3} \subseteq Matching(txn.subject)
    /\ txn.account = "Probenwochenende"

-----------------------------------------------------------------------------
(* C4 *)

\* Where the token stands in s, in either letter case
TokenPlaces(s) == {i \in 1..(Len(s) - 2) : LowerStr(SubSeq(s, i, i + 2)) = "pwe"}

\* The token at i is a word of its own: no word character before or after it
IsolatedAt(s, i) == ~IsWordAt(s, i - 1) /\ ~IsWordAt(s, i + 3)

\* A letter or a digit stands at i
AlnumAt(s, i) == IsWordAt(s, i) /\ CharAt(s, i) # "_"

\* The token at i is inside a longer alphanumeric word
EmbeddedAt(s, i) == AlnumAt(s, i - 1) \/ AlnumAt(s, i + 3)

\* The token at i is in upper case and ends a word
EndsWordAt(s, i) == SubSeq(s, i, i + 2) = "PWE" /\ ~IsWordAt(s, i + 3)

Contains(s, sub) == \E i \in 1..(Len(s) - Len(sub) + 1) : SubSeq(s, i, i + Len(sub) - 1) = sub

OtherKeywords ==
    {"probenwochenende", "proben-we", "ochsenhausen", "vegetarisch",
     "chorreise", "reisebeitrag", "chorreisebeitrag"}

NoOtherKeyword(s) == \A kw \in OtherKeywords : ~Contains(LowerStr(s), kw)

-----------------------------------------------------------------------------
(* C6 *)

\* C6: the subject is the name (if not empty) and the first purpose line (if there
\* is one), the name first, a newline between them when both are there.
C6_SubjectAssembly ==
    upc \in {"built", "written"} =>
        txn.subject =
            CASE camt.name # "" /\ camt.purpose # <<>> -> camt.name \o "\n" \o camt.purpose[1]
              [] camt.name # "" /\ camt.purpose = <<>> -> camt.name
              [] camt.name = "" /\ camt.purpose # <<>> -> camt.purpose[1]
              [] OTHER -> ""

\* The entry named Acme with the purpose lines first and second
C6_Witness ==
    /\ upc = "built"
    /\ camt.name = "Acme"
    /\ camt.purpose = <<"first", "second Chorreise">>
    /\ txn.subject = "Acme\nfirst"

-----------------------------------------------------------------------------
(* C9 *)

RECURSIVE Pow10(_)
Pow10(n) == IF n <= 0 THEN 1 ELSE 10 * Pow10(n - 1)

\* The amount in decimal text with a decimal comma and no other separator
PlainDecimal(a) ==
    (IF a.neg THEN "-" ELSE "")
    \o NatStr(a.coeff \div Pow10(0 - a.exp))
    \o (IF a.exp < 0 THEN "," \o Pad(a.coeff % Pow10(0 - a.exp), 0 - a.exp) ELSE "")

RECURSIVE Without(_, _)
Without(s, c) ==
    IF s = "" THEN ""
    ELSE (IF Head(s) = c THEN "" ELSE Head(s)) \o Without(Tail(s), c)

RECURSIVE UpTo(_, _)
UpTo(s, c) == IF s = "" \/ Head(s) = c THEN "" ELSE Head(s) \o UpTo(Tail(s), c)

\* The integer part of a rendered amount: after the sign, before the comma
IntegerPart(text) == UpTo(Without(text, "-"), ",")

\* A full stop stands exactly before every full group of three integer digits.
GroupedByThree(text) ==
    LET ip == IntegerPart(text)
    IN  \A i \in 1..Len(ip) : (CharAt(ip, i) = ".") <=> ((Len(ip) - i + 1) % 4 = 0)

====
